---- MODULE Spec2Model ----
(***************************************************************************)
(* Model of Vitis/XADC_main.c: the XADC (System Monitor) is configured for *)
(* continuous sampling of VP/VN, the AXI DMA is reset and put in polling   *)
(* mode, and main() then loops forever: start a 512-byte device-to-memory  *)
(* transfer, busy-wait for it, flush the data cache over the buffer, print *)
(* 100 samples as voltages, print a separator, sleep 500 ms.               *)
(*                                                                         *)
(* The program is one sequential process (pc); the hardware (DMA engine)   *)
(* is the environment and takes its own steps.  Results of the driver      *)
(* calls that the program cannot control (descriptor lookups, status       *)
(* codes, the data the engine writes) are chosen nondeterministically.     *)
(***************************************************************************)
EXTENDS Integers, Sequences, FiniteSets

VARIABLES
    pc,           \* position of main()
    exitStatus,   \* <<v>> once main() has returned v, << >> while it runs
    platform,     \* [init, cleanup]: init_platform / cleanup_platform called
    sysmon,       \* XADC registers and driver instance
    sysmonWrites, \* log of the XADC register writes, each with the mode in force
    dma,          \* AXI DMA engine, S2MM (device-to-memory) channel
    mem,          \* DDR contents of the receive buffer, one u16 per sample slot
    cpuView,      \* what a CPU load of the buffer returns (data cache)
    adc_data_ptr, \* u16 *adc_data_ptr, as a byte address
    i,            \* loop variable of the for loop
    status,       \* int status
    out,          \* lines written to the console, in order
    reads,        \* byte offsets (from the buffer base) of the u16 loads, in order
    lastReq,      \* arguments of the most recent XAxiDma_SimpleTransfer
    lastFlush,    \* arguments of the most recent Xil_DCacheFlushRange
    ret,          \* outcome of each driver call that reports one: "none", "ok", "fail"
    n             \* counters of the steps taken so far

vars == <<pc, exitStatus, platform, sysmon, sysmonWrites, dma,
          mem, cpuView, adc_data_ptr, i, status, out, reads, lastReq, lastFlush,
          ret, n>>

----------------------------------------------------------------------------
\* Bounds of the model

\* loop iterations (submit attempts) explored
MaxCycles == 2
\* polls of a wait loop that are counted (the count saturates)
MaxPolls == 2
\* number of different data patterns the engine may deliver
NumFills == 2

----------------------------------------------------------------------------
\* Program constants

DMA_RX_BUFFER_ADDR == 1048576
MAX_PACKET_LENGTH == 512
SAMPLE_COUNT == 100
ADC_CLK_DIVISOR == 32
\* 65536.0f = 2^16
FULL_SCALE_LOG2 == 16
FRAC_SCALE == 1000
XST_SUCCESS == 0
XST_FAILURE == 1
\* sizeof(u16), the step of adc_data_ptr++
SAMPLE_BYTES == 2
\* significand width of the C type float
FLT_MANT_DIG == 24
\* minimum field width of "%03d"
FRAC_WIDTH == 3
\* argument of usleep
SLEEP_USEC == 500000

Min(a, b) == IF a < b THEN a ELSE b

RECURSIVE Pow2(_)
Pow2(k) == IF k = 0 THEN 1 ELSE 2 * Pow2(k - 1)

\* number of bits of a natural number
RECURSIVE BitLen(_)
BitLen(x) == IF x = 0 THEN 0 ELSE 1 + BitLen(x \div 2)

----------------------------------------------------------------------------
\* Single-precision arithmetic.  A float is <<num, k>>, the value num / 2^k
\* with num >= 0; RoundFloat rounds a real of that form to the nearest float
\* (ties to even), as every float operation of the program does.

RoundFloat(x) ==
    LET d == BitLen(x[1]) - FLT_MANT_DIG
    IN  IF d <= 0 THEN x
        ELSE LET q    == x[1] \div Pow2(d)
                 r    == x[1] % Pow2(d)
                 half == Pow2(d - 1)
                 up   == r > half \/ (r = half /\ q % 2 = 1)
             IN  <<(IF up THEN q + 1 ELSE q) * Pow2(d), x[2]>>

\* (float) n
IntToFloat(v) == RoundFloat(<<v, 0>>)

FMul(x, y) == RoundFloat(<<x[1] * y[1], x[2] + y[2]>>)

\* x / 2^p
FDivPow2(x, p) == RoundFloat(<<x[1], x[2] + p>>)

\* x - y, for x >= y
FSub(x, y) ==
    LET k == IF x[2] > y[2] THEN x[2] ELSE y[2]
    IN  RoundFloat(<<x[1] * Pow2(k - x[2]) - y[1] * Pow2(k - y[2]), k>>)

\* a conversion that rounds to the nearest integer instead of truncating
FloatToIntNearest(x) == (2 * x[1] + Pow2(x[2])) \div (2 * Pow2(x[2]))

\* (int) x: the fractional part is discarded
FloatToInt(x) == x[1] \div Pow2(x[2])

\* ((float)(adc_value) * 1.0f) / 65536.0f
ConvertRawADCToVoltage(adc_value) ==
    FDivPow2(FMul(IntToFloat(adc_value), IntToFloat(1)), FULL_SCALE_LOG2)

\* decimal digits of a natural number, most significant first
RECURSIVE Digits(_)
Digits(v) == IF v < 10 THEN <<v>> ELSE Append(Digits(v \div 10), v % 10)

RECURSIVE ZeroPad(_, _)
ZeroPad(ds, w) == IF Len(ds) >= w THEN ds ELSE ZeroPad(<<0>> \o ds, w)

\* "%03d" of a non-negative value
Fmt03d(v) == ZeroPad(Digits(v), FRAC_WIDTH)

\* a console line: its kind, the value printed with %d, and the %03d digits
Line(kind, ip, frac) == [kind |-> kind, ip |-> ip, frac |-> frac]

\* lines 108-115: the line printed for one raw sample
VoltLine(raw) ==
    LET voltage         == ConvertRawADCToVoltage(raw)
        integer_part    == FloatToInt(voltage)
        fractional_part ==
            FloatToInt(FMul(FSub(voltage, IntToFloat(integer_part)),
                            IntToFloat(FRAC_SCALE)))
    IN  Line("volts", integer_part, Fmt03d(fractional_part))

----------------------------------------------------------------------------
\* The receive buffer

\* u16 slots of one transfer
Slots == 0 .. (MAX_PACKET_LENGTH \div SAMPLE_BYTES - 1)

\* raw codes the XADC stream may carry
Codes == <<0, 16384, 32768, 49152, 65535, 65530, 1, 65>>

\* data pattern f as the engine delivers it: slot k holds Codes[(k + f) mod 8]
Fill(f) == [k \in Slots |-> Codes[((k + f) % Len(Codes)) + 1]]

Fills == {Fill(f) : f \in 0 .. (NumFills - 1)}

\* the load ignores the pointer's advance and always returns the first sample
Load16AtBase(addr) == cpuView[0]

\* *adc_data_ptr: a 16-bit load through the data cache
Load16(addr) == cpuView[(addr - DMA_RX_BUFFER_ADDR) \div SAMPLE_BYTES]

\* Xil_DCacheFlushRange(addr, len): the lines of [addr, addr+len) are written
\* back and invalidated, so that later loads return what is in DDR
FlushRange(addr, len) ==
    [k \in Slots |->
        IF /\ DMA_RX_BUFFER_ADDR + SAMPLE_BYTES * k >= addr
           /\ DMA_RX_BUFFER_ADDR + SAMPLE_BYTES * k < addr + len
        THEN mem[k] ELSE cpuView[k]]

----------------------------------------------------------------------------
\* Initial state: main() has not started; the hardware is out of power-on reset

Init ==
    /\ pc = "init_platform"
    /\ exitStatus = << >>
    /\ platform = [init |-> FALSE, cleanup |-> FALSE]
    /\ sysmon = [ready |-> FALSE, seqMode |-> "default", alarmEnables |-> {"power_on"},
                 seqChEnables |-> {}, clkDivisor |-> 0]
    /\ sysmonWrites = << >>
    /\ dma = [ready |-> FALSE, resetDone |-> TRUE, busy |-> FALSE, written |-> FALSE,
              err |-> FALSE, intrS2MM |-> TRUE, intrMM2S |-> TRUE]
    /\ mem \in Fills
    /\ cpuView = mem
    /\ adc_data_ptr = 0
    /\ i = 0
    /\ status = 0
    /\ out = << >>
    /\ reads = << >>
    /\ lastReq = << >>
    /\ lastFlush = << >>
    /\ ret = [sysmonLookup |-> "none", sysmonInit |-> "none", dmaLookup |-> "none",
              dmaInit |-> "none", submit |-> "none"]
    /\ n = [attempt |-> 0, submit |-> 0, await |-> 0, flush |-> 0, sep |-> 0,
            delay |-> 0, slept |-> 0, busyPolls |-> 0, resetPolls |-> 0]

\* variable groups, for UNCHANGED
progVars   == <<adc_data_ptr, i, status>>
sysmonVars == <<sysmon, sysmonWrites>>
bufVars    == <<mem, cpuView, reads, lastFlush>>
dmaVars    == <<dma, lastReq>>

\* return v from main()
Return(v) ==
    /\ pc' = "exited"
    /\ exitStatus' = <<v>>

Goto(l) ==
    /\ pc' = l
    /\ UNCHANGED exitStatus

\* outcome of a driver call, as recorded in ret
Outcome(ok) == IF ok THEN "ok" ELSE "fail"

----------------------------------------------------------------------------
\* main(), lines 24-47: platform and System Monitor

\* line 24
InitPlatform ==
    /\ pc = "init_platform"
    /\ platform' = [platform EXCEPT !.init = TRUE]
    /\ Goto("print_banner")
    /\ UNCHANGED <<ret, sysmonVars, dmaVars, bufVars, progVars, out, n>>

\* line 26
PrintBanner ==
    /\ pc = "print_banner"
    /\ out' = Append(out, Line("banner", 0, << >>))
    /\ Goto("sysmon_lookup")
    /\ UNCHANGED <<platform, ret, sysmonVars, dmaVars, bufVars, progVars, n>>

\* the lookup's NULL result falls through to the initialization
SysMonLookupNoCheck(found) == "sysmon_cfginit"

\* lines 34-36: where main() continues after the lookup
SysMonLookupBranch(found) == IF found THEN "sysmon_cfginit" ELSE "exited"

\* lines 33-36: XSysMon_LookupConfig; NULL is fatal, and nothing is printed
SysMonLookup ==
    /\ pc = "sysmon_lookup"
    /\ \E found \in BOOLEAN :
          /\ ret' = [ret EXCEPT !.sysmonLookup = Outcome(found)]
          /\ IF SysMonLookupBranch(found) = "exited"
             THEN Return(XST_FAILURE)
             ELSE Goto(SysMonLookupBranch(found))
    /\ UNCHANGED <<platform, sysmonVars, dmaVars, bufVars, progVars, out, n>>

\* line 40: XSysMon_CfgInitialize; its return value is discarded
SysMonCfgInitialize ==
    /\ pc = "sysmon_cfginit"
    /\ \E ok \in BOOLEAN :
          /\ sysmon' = [sysmon EXCEPT !.ready = ok]
          /\ ret' = [ret EXCEPT !.sysmonInit = Outcome(ok)]
    /\ Goto("seq_safe")
    /\ UNCHANGED <<platform, sysmonWrites, dmaVars, bufVars, progVars, out, n>>

\* one register write of the XADC: the register is set and the write is logged
\* together with the sequencer mode in force when it is made.  The calls are
\* made whatever XSysMon_CfgInitialize returned (line 40 discards it); the
\* model takes the registers to be written through the descriptor's base
\* address in either case.
SysMonWrite(reg, val) ==
    /\ sysmon' = [sysmon EXCEPT ![reg] = val]
    /\ sysmonWrites' = Append(sysmonWrites,
                              [reg |-> reg, val |-> val, mode |-> sysmon.seqMode])

\* the configuration with the channel selected after continuous sampling starts
SysMonStepsReordered ==
    <<[at |-> "seq_safe",   reg |-> "seqMode",      val |-> "safe"],
      [at |-> "alarms",     reg |-> "alarmEnables", val |-> {}],
      [at |-> "clk_div",    reg |-> "clkDivisor",   val |-> ADC_CLK_DIVISOR],
      [at |-> "seq_contin", reg |-> "seqMode",      val |-> "continpass"],
      [at |-> "seq_ch",     reg |-> "seqChEnables", val |-> {"VPVN"}]>>

\* the configuration without the call that starts continuous sampling
SysMonStepsNeverStarted ==
    <<[at |-> "seq_safe",   reg |-> "seqMode",      val |-> "safe"],
      [at |-> "alarms",     reg |-> "alarmEnables", val |-> {}],
      [at |-> "seq_ch",     reg |-> "seqChEnables", val |-> {"VPVN"}],
      [at |-> "clk_div",    reg |-> "clkDivisor",   val |-> ADC_CLK_DIVISOR]>>

\* lines 43-47: the five configuration calls, in program order
SysMonSteps ==
    <<[at |-> "seq_safe",   reg |-> "seqMode",      val |-> "safe"],
      [at |-> "alarms",     reg |-> "alarmEnables", val |-> {}],
      [at |-> "seq_ch",     reg |-> "seqChEnables", val |-> {"VPVN"}],
      [at |-> "clk_div",    reg |-> "clkDivisor",   val |-> ADC_CLK_DIVISOR],
      [at |-> "seq_contin", reg |-> "seqMode",      val |-> "continpass"]>>

\* lines 43-47: the k-th configuration call
SysMonConfigure ==
    /\ \E k \in 1 .. Len(SysMonSteps) :
          /\ pc = SysMonSteps[k].at
          /\ SysMonWrite(SysMonSteps[k].reg, SysMonSteps[k].val)
          /\ Goto(IF k < Len(SysMonSteps) THEN SysMonSteps[k + 1].at ELSE "dma_lookup")
    /\ UNCHANGED <<platform, ret, dmaVars, bufVars, progVars, out, n>>

----------------------------------------------------------------------------
\* main(), lines 54-76: AXI DMA

\* a missing descriptor is not noticed
DmaLookupNoCheck(found) == "dma_cfginit"

\* lines 55-58: where main() continues after the lookup
DmaLookupBranch(found) == IF found THEN "dma_cfginit" ELSE "exited"

\* lines 54-58: XAxiDma_LookupConfig; NULL is reported and fatal
\* (the line printed carries the device id, 0 here)
DmaLookup ==
    /\ pc = "dma_lookup"
    /\ \E found \in BOOLEAN :
          /\ ret' = [ret EXCEPT !.dmaLookup = Outcome(found)]
          /\ IF DmaLookupBranch(found) = "exited"
             THEN /\ out' = Append(out, Line("no_dma_config", 0, << >>))
                  /\ Return(XST_FAILURE)
             ELSE /\ out' = out
                  /\ Goto(DmaLookupBranch(found))
    /\ UNCHANGED <<platform, sysmonVars, dmaVars, bufVars, progVars, n>>

\* a rejected initialization is not noticed
DmaInitNoCheck(st) == "dma_reset"

\* lines 63-66: where main() continues after the initialization
DmaInitBranch(st) == IF st # XST_SUCCESS THEN "exited" ELSE "dma_reset"

\* lines 62-66: XAxiDma_CfgInitialize; a non-success status is reported and fatal
DmaCfgInitialize ==
    /\ pc = "dma_cfginit"
    /\ \E st \in {XST_SUCCESS, XST_FAILURE} :
          /\ status' = st
          /\ dma' = [dma EXCEPT !.ready = (st = XST_SUCCESS)]
          /\ ret' = [ret EXCEPT !.dmaInit = Outcome(st = XST_SUCCESS)]
          /\ IF DmaInitBranch(st) = "exited"
             THEN /\ out' = Append(out, Line("dma_init_failed", st, << >>))
                  /\ Return(XST_FAILURE)
             ELSE /\ out' = out
                  /\ Goto(DmaInitBranch(st))
    /\ UNCHANGED <<platform, sysmonVars, lastReq, bufVars, adc_data_ptr, i, n>>

\* line 69: XAxiDma_Reset; the engine starts its reset, which stops any transfer
DmaReset ==
    /\ pc = "dma_reset"
    /\ dma' = [dma EXCEPT !.resetDone = FALSE, !.busy = FALSE, !.written = FALSE]
    /\ Goto("reset_wait")
    /\ UNCHANGED <<platform, ret, sysmonVars, lastReq, bufVars, progVars, out, n>>

\* the wait is left without looking at the engine
ResetWaitExitsAtOnce(done) == TRUE

\* line 70: the loop condition, !XAxiDma_ResetIsDone, is false
ResetWaitExits(done) == done

\* lines 70-72: one evaluation of the reset wait's condition
ResetPoll ==
    /\ pc = "reset_wait"
    /\ IF ResetWaitExits(dma.resetDone)
       THEN /\ Goto("intr_disable_s2mm")
            /\ n' = n
       ELSE /\ Goto("reset_wait")
            /\ n' = [n EXCEPT !.resetPolls = Min(@ + 1, MaxPolls)]
    /\ UNCHANGED <<platform, ret, sysmonVars, dmaVars, bufVars, progVars, out>>

\* line 75: XAxiDma_IntrDisable(XAXIDMA_IRQ_ALL_MASK, XAXIDMA_DEVICE_TO_DMA)
IntrDisableS2MM ==
    /\ pc = "intr_disable_s2mm"
    /\ dma' = [dma EXCEPT !.intrS2MM = FALSE]
    /\ Goto("intr_disable_mm2s")
    /\ UNCHANGED <<platform, ret, sysmonVars, lastReq, bufVars, progVars, out, n>>

\* the second call names the device-to-memory direction again
IntrDisableS2MMAgain ==
    /\ pc = "intr_disable_mm2s"
    /\ dma' = [dma EXCEPT !.intrS2MM = FALSE]
    /\ Goto("loop_head")
    /\ UNCHANGED <<platform, ret, sysmonVars, lastReq, bufVars, progVars, out, n>>

\* line 76: XAxiDma_IntrDisable(XAXIDMA_IRQ_ALL_MASK, XAXIDMA_DMA_TO_DEVICE)
IntrDisableMM2S ==
    /\ pc = "intr_disable_mm2s"
    /\ dma' = [dma EXCEPT !.intrMM2S = FALSE]
    /\ Goto("loop_head")
    /\ UNCHANGED <<platform, ret, sysmonVars, lastReq, bufVars, progVars, out, n>>

----------------------------------------------------------------------------
\* main(), lines 82-124: the acquisition loop

\* the read pointer is set before the loop only and kept between iterations
LoopBaseKept == IF n.attempt = 0 THEN DMA_RX_BUFFER_ADDR ELSE adc_data_ptr

\* line 85: the address adc_data_ptr is set to at the top of each iteration
LoopBase == DMA_RX_BUFFER_ADDR

\* the loop is left once a batch has been printed
WhileUntilFirstBatch == n.sep = 0

\* line 82: the condition of while (1)
WhileContinues == TRUE

\* lines 82-85 and 127-128: top of while (1).  While the condition holds the
\* pointers are set to the buffer base; the code after the loop
\* (cleanup_platform, return 0) is where a false condition would lead.
LoopHead ==
    /\ pc = "loop_head"
    /\ n.attempt < MaxCycles
    /\ IF WhileContinues
       THEN /\ adc_data_ptr' = LoopBase
            /\ Goto("submit")
            /\ UNCHANGED platform
       ELSE /\ platform' = [platform EXCEPT !.cleanup = TRUE]
            /\ Return(XST_SUCCESS)
            /\ UNCHANGED adc_data_ptr
    /\ UNCHANGED <<ret, sysmonVars, dmaVars, bufVars, i, status, out, n>>

\* a rejected submit is not noticed
SubmitNoCheck(st) == "busy_wait"

\* lines 92-95: where main() continues after the submit
SubmitBranch(st) == IF st # XST_SUCCESS THEN "exited" ELSE "busy_wait"

\* lines 88-95: XAxiDma_SimpleTransfer(buffer, 512, device-to-memory).  The
\* driver refuses a transfer while the channel is busy and may refuse one for
\* reasons of its own; an accepted transfer puts the channel in flight.
Submit ==
    /\ pc = "submit"
    /\ \E st \in {XST_SUCCESS, XST_FAILURE} :
          /\ dma.busy => st = XST_FAILURE
          /\ status' = st
          /\ ret' = [ret EXCEPT !.submit = Outcome(st = XST_SUCCESS)]
          /\ lastReq' = [addr |-> DMA_RX_BUFFER_ADDR, len |-> MAX_PACKET_LENGTH,
                         dir |-> "XAXIDMA_DEVICE_TO_DMA"]
          /\ dma' = IF st = XST_SUCCESS
                    THEN [dma EXCEPT !.busy = TRUE, !.written = FALSE, !.err = FALSE]
                    ELSE dma
          /\ n' = [n EXCEPT !.attempt = @ + 1,
                            !.submit = IF st = XST_SUCCESS THEN @ + 1 ELSE @]
          /\ IF SubmitBranch(st) = "exited"
             THEN /\ out' = Append(out, Line("dma_transfer_failed", st, << >>))
                  /\ Return(XST_FAILURE)
             ELSE /\ out' = out
                  /\ Goto(SubmitBranch(st))
    /\ UNCHANGED <<platform, sysmonVars, bufVars, adc_data_ptr, i>>

\* the wait is left without looking at the engine
BusyWaitExitsAtOnce(busy) == TRUE

\* line 98: the loop condition, XAxiDma_Busy, is false
BusyWaitExits(busy) == ~busy

\* the wait, followed by a check of the engine's error report that ends the
\* program on a transfer fault
BusyPollWithFaultCheck ==
    /\ pc = "busy_wait"
    /\ IF BusyWaitExits(dma.busy)
       THEN IF dma.err
            THEN /\ Return(XST_FAILURE)
                 /\ n' = n
            ELSE /\ Goto("flush")
                 /\ n' = [n EXCEPT !.await = @ + 1]
       ELSE /\ Goto("busy_wait")
            /\ n' = [n EXCEPT !.busyPolls = Min(@ + 1, MaxPolls)]
    /\ UNCHANGED <<platform, ret, sysmonVars, dmaVars, bufVars, progVars, out>>

\* lines 98-100: one evaluation of the completion wait's condition
BusyPoll ==
    /\ pc = "busy_wait"
    /\ IF BusyWaitExits(dma.busy)
       THEN /\ Goto("flush")
            /\ n' = [n EXCEPT !.await = @ + 1]
       ELSE /\ Goto("busy_wait")
            /\ n' = [n EXCEPT !.busyPolls = Min(@ + 1, MaxPolls)]
    /\ UNCHANGED <<platform, ret, sysmonVars, dmaVars, bufVars, progVars, out>>

\* only the bytes of the samples that are printed are flushed
FlushArgsSamplesOnly ==
    [addr |-> DMA_RX_BUFFER_ADDR, len |-> SAMPLE_COUNT * SAMPLE_BYTES]

\* line 103: the arguments (UINTPTR) dma_rx_buffer_ptr, MAX_PACKET_LENGTH
FlushArgs == [addr |-> DMA_RX_BUFFER_ADDR, len |-> MAX_PACKET_LENGTH]

\* line 103: Xil_DCacheFlushRange(dma_rx_buffer_ptr, MAX_PACKET_LENGTH)
Flush ==
    /\ pc = "flush"
    /\ cpuView' = FlushRange(FlushArgs.addr, FlushArgs.len)
    /\ lastFlush' = FlushArgs
    /\ n' = [n EXCEPT !.flush = @ + 1]
    /\ i' = 0
    /\ Goto("for")
    /\ UNCHANGED <<platform, ret, sysmonVars, dmaVars, mem, reads, adc_data_ptr,
                   status, out>>

\* one sample too many
ForContinuesOffByOne(k) == k <= SAMPLE_COUNT

\* line 106: the for loop's condition
ForContinues(k) == k < SAMPLE_COUNT

\* lines 106-118: one evaluation of the for loop: either the body (load a
\* sample, convert, print, advance pointer and index) or the loop's exit
ForStep ==
    /\ pc = "for"
    /\ IF ForContinues(i)
       THEN /\ reads' = Append(reads, adc_data_ptr - DMA_RX_BUFFER_ADDR)
            /\ out' = Append(out, VoltLine(Load16(adc_data_ptr)))
            /\ adc_data_ptr' = adc_data_ptr + SAMPLE_BYTES
            /\ i' = i + 1
            /\ Goto("for")
       ELSE /\ UNCHANGED <<reads, out, adc_data_ptr, i>>
            /\ Goto("separator")
    /\ UNCHANGED <<platform, ret, sysmonVars, dmaVars, mem, cpuView, lastFlush, status, n>>

\* line 120
Separator ==
    /\ pc = "separator"
    /\ out' = Append(out, Line("separator", 0, << >>))
    /\ n' = [n EXCEPT !.sep = @ + 1]
    /\ Goto("delay")
    /\ UNCHANGED <<platform, ret, sysmonVars, dmaVars, bufVars, progVars>>

\* line 123: usleep(500000), then back to the top of the loop
Delay ==
    /\ pc = "delay"
    /\ n' = [n EXCEPT !.delay = @ + 1, !.slept = @ + SLEEP_USEC]
    /\ Goto("loop_head")
    /\ UNCHANGED <<platform, ret, sysmonVars, dmaVars, bufVars, progVars, out>>

----------------------------------------------------------------------------
\* The hardware

\* the engine finishes the reset requested at line 69
HwResetDone ==
    /\ ~dma.resetDone
    /\ dma' = [dma EXCEPT !.resetDone = TRUE]
    /\ UNCHANGED <<pc, exitStatus, ret, platform, sysmonVars, lastReq, bufVars,
                   progVars, out, n>>

\* the engine writes the stream data of the transfer in flight to DDR
HwDmaWrite ==
    /\ dma.busy /\ ~dma.written
    /\ mem' \in Fills
    /\ dma' = [dma EXCEPT !.written = TRUE]
    /\ UNCHANGED <<pc, exitStatus, ret, platform, sysmonVars, lastReq, cpuView,
                   reads, lastFlush, progVars, out, n>>

\* the channel goes idle: the transfer is complete, or the engine has halted
\* on an error (err) with the data written so far
HwDmaIdle ==
    /\ dma.busy
    /\ \E e \in BOOLEAN :
          /\ ~dma.written => e
          /\ dma' = [dma EXCEPT !.busy = FALSE, !.err = e]
    /\ UNCHANGED <<pc, exitStatus, ret, platform, sysmonVars, lastReq, bufVars,
                   progVars, out, n>>

Next ==
    \/ InitPlatform
    \/ PrintBanner
    \/ SysMonLookup
    \/ SysMonCfgInitialize
    \/ SysMonConfigure
    \/ DmaLookup
    \/ DmaCfgInitialize
    \/ DmaReset
    \/ ResetPoll
    \/ IntrDisableS2MM
    \/ IntrDisableMM2S
    \/ LoopHead
    \/ Submit
    \/ BusyPoll
    \/ Flush
    \/ ForStep
    \/ Separator
    \/ Delay
    \/ HwResetDone
    \/ HwDmaWrite
    \/ HwDmaIdle

Spec == Init /\ [][Next]_vars

----------------------------------------------------------------------------
\* The conversion on every raw code: the program is taken at line 103 of its
\* first cycle, the transfer complete, with an arbitrary 16-bit code in the
\* first sample slot; it flushes and converts that sample.

RawCodes == 0 .. (Pow2(FULL_SCALE_LOG2) - 1)

ConvInit ==
    /\ pc = "flush"
    /\ exitStatus = << >>
    /\ platform = [init |-> TRUE, cleanup |-> FALSE]
    /\ sysmon = [ready |-> TRUE, seqMode |-> "continpass", alarmEnables |-> {},
                 seqChEnables |-> {"VPVN"}, clkDivisor |-> ADC_CLK_DIVISOR]
    /\ sysmonWrites =
          [k \in 1 .. Len(SysMonSteps) |->
              [reg |-> SysMonSteps[k].reg, val |-> SysMonSteps[k].val,
               mode |-> IF k = 1 THEN "default" ELSE "safe"]]
    /\ dma = [ready |-> TRUE, resetDone |-> TRUE, busy |-> FALSE, written |-> TRUE,
              err |-> FALSE, intrS2MM |-> FALSE, intrMM2S |-> FALSE]
    /\ \E c \in RawCodes : mem = [Fill(0) EXCEPT ![0] = c]
    /\ cpuView = Fill(0)
    /\ adc_data_ptr = DMA_RX_BUFFER_ADDR
    /\ i = 0
    /\ status = XST_SUCCESS
    /\ out = <<Line("banner", 0, << >>)>>
    /\ reads = << >>
    /\ lastReq = [addr |-> DMA_RX_BUFFER_ADDR, len |-> MAX_PACKET_LENGTH,
                  dir |-> "XAXIDMA_DEVICE_TO_DMA"]
    /\ lastFlush = << >>
    /\ ret = [sysmonLookup |-> "ok", sysmonInit |-> "ok", dmaLookup |-> "ok",
              dmaInit |-> "ok", submit |-> "ok"]
    /\ n = [attempt |-> 1, submit |-> 1, await |-> 1, flush |-> 0, sep |-> 0,
            delay |-> 0, slept |-> 0, busyPolls |-> 0, resetPolls |-> 0]

\* the body of the for loop on the first sample
ConvFirstSample ==
    /\ i = 0
    /\ ForStep

ConvNext ==
    \/ Flush
    \/ ConvFirstSample

ConvSpec == ConvInit /\ [][ConvNext]_vars

----------------------------------------------------------------------------
\* The program running without end.  The logs and counters (out, reads, n)
\* are kept for the cycle in progress only: they are cleared at the top of
\* the loop, which leaves the program's own state as it is and makes the
\* state space finite.  The processor keeps executing main() (weak fairness
\* of the program's steps); nothing is assumed of the hardware.

NoCounts ==
    [attempt |-> 0, submit |-> 0, await |-> 0, flush |-> 0, sep |-> 0,
     delay |-> 0, slept |-> 0, busyPolls |-> 0, resetPolls |-> 0]

\* lines 82-85 and 127-128, as LoopHead, for any number of iterations
LiveLoopHead ==
    /\ pc = "loop_head"
    /\ IF WhileContinues
       THEN /\ adc_data_ptr' = LoopBase
            /\ Goto("submit")
            /\ out' = << >> /\ reads' = << >> /\ n' = NoCounts
            /\ UNCHANGED platform
       ELSE /\ platform' = [platform EXCEPT !.cleanup = TRUE]
            /\ Return(XST_SUCCESS)
            /\ UNCHANGED <<adc_data_ptr, out, reads, n>>
    /\ UNCHANGED <<ret, sysmonVars, dmaVars, mem, cpuView, lastFlush, i, status>>

\* the steps of main() other than those of the for loop
LiveStraight ==
    \/ InitPlatform
    \/ PrintBanner
    \/ SysMonLookup
    \/ SysMonCfgInitialize
    \/ SysMonConfigure
    \/ DmaLookup
    \/ DmaCfgInitialize
    \/ DmaReset
    \/ ResetPoll
    \/ IntrDisableS2MM
    \/ IntrDisableMM2S
    \/ LiveLoopHead
    \/ Submit
    \/ BusyPoll
    \/ Flush
    \/ Separator
    \/ Delay

LiveNext ==
    \/ LiveStraight
    \/ ForStep
    \/ HwResetDone
    \/ HwDmaWrite
    \/ HwDmaIdle

\* a step of the for loop, told by its control (pc and i) alone.  Only
\* ForStep makes such a step, and ForStep is enabled whenever pc = "for".
ForProgress ==
    /\ pc = "for"
    /\ IF ForContinues(i)
       THEN i' = i + 1 /\ pc' = "for"
       ELSE i' = i /\ pc' = "separator"

LiveSpec ==
    /\ Init /\ [][LiveNext]_vars
    /\ WF_vars(LiveStraight)
    /\ WF_<<pc, i>>(ForProgress)

----------------------------------------------------------------------------
\* Properties

\* console lines of one kind printed so far
CountLines(kind) == Cardinality({j \in 1 .. Len(out) : out[j].kind = kind})

ErrorKinds == {"no_dma_config", "dma_init_failed", "dma_transfer_failed"}

\* C1: in every acquisition cycle the transfer is submitted, then the wait
\* sees the engine not busy, then the buffer is flushed, and only then are
\* samples read; no step is skipped.  With the steps counted over the whole
\* run: the c-th wait returns only after the c-th accepted submit and with the
\* engine not busy, the c-th flush only after the c-th wait, the samples of
\* cycle c are read only after the c-th flush, and the next cycle's submit,
\* wait and flush come only after all 100 samples of the cycle before.
C1_CycleOrder ==
    /\ n.await <= n.submit /\ n.submit <= n.await + 1
    /\ n.flush <= n.await /\ n.await <= n.flush + 1
    /\ Len(reads) <= 100 * n.flush
    /\ n.submit >= 1 => Len(reads) >= 100 * (n.submit - 1)
    /\ pc = "flush" => ~dma.busy /\ n.await = n.submit /\ n.flush = n.await - 1
    /\ pc = "for" => n.flush = n.submit /\ Len(reads) = 100 * (n.flush - 1) + i

\* a sample of the second cycle has been read
C1_Witness == n.submit = 2 /\ n.flush = 2 /\ Len(reads) > 100

\* the XADC register writes the claim prescribes, in order
C2_Expected ==
    <<[reg |-> "seqMode",      val |-> "safe"],
      [reg |-> "alarmEnables", val |-> {}],
      [reg |-> "seqChEnables", val |-> {"VPVN"}],
      [reg |-> "clkDivisor",   val |-> 32],
      [reg |-> "seqMode",      val |-> "continpass"]>>

\* C2: the analog monitor is configured by exactly these writes in this order:
\* sequencer mode Safe, alarms disabled, channel mask = VP/VN only, clock
\* divisor 32, sequencer mode ContinuousPass.  The channel mask and the clock
\* divisor are written only while the mode is Safe, and whenever the mode is
\* ContinuousPass the alarms are disabled and the mask is exactly VP/VN.
C2_ConfigOrder ==
    /\ Len(sysmonWrites) <= Len(C2_Expected)
    /\ \A k \in 1 .. Len(sysmonWrites) :
          /\ sysmonWrites[k].reg = C2_Expected[k].reg
          /\ sysmonWrites[k].val = C2_Expected[k].val
          /\ sysmonWrites[k].reg \in {"seqChEnables", "clkDivisor"}
                => sysmonWrites[k].mode = "safe"
    /\ sysmon.seqMode = "continpass"
          => /\ Len(sysmonWrites) = 5
             /\ sysmon.alarmEnables = {}
             /\ sysmon.seqChEnables = {"VPVN"}
             /\ sysmon.clkDivisor = 32
    /\ ret.dmaLookup # "none" => sysmon.seqMode = "continpass"

\* continuous sampling has been started
C2_Witness == sysmon.seqMode = "continpass" /\ Len(sysmonWrites) = 5

\* C3: at most one transfer is outstanding: every submit, in any loop
\* iteration, is made with the engine not busy and with every transfer
\* accepted before it already waited for.
C3_OneOutstanding ==
    [][n'.attempt # n.attempt => ~dma.busy /\ n.await = n.submit]_vars

\* a second transfer has been accepted
C3_Witness == n.attempt = 2 /\ n.submit = 2

\* C4: the waits are left only on the hardware status.  A step taken while
\* the engine reports reset-not-done leaves the program in the reset wait, a
\* step taken while it reports busy leaves the program in the completion
\* wait, and a step that leaves the program in a wait flushes nothing, reads
\* no sample, prints nothing and does not return: so if the status never
\* changes the program stays in the wait for ever.
C4_WaitsHaveNoOtherExit ==
    [][/\ pc = "reset_wait" /\ ~dma.resetDone => pc' = "reset_wait"
       /\ pc = "busy_wait" /\ dma.busy => pc' = "busy_wait"
       /\ pc \in {"reset_wait", "busy_wait"} /\ pc' = pc
             => /\ out' = out /\ reads' = reads /\ exitStatus' = exitStatus
                /\ n'.flush = n.flush /\ cpuView' = cpuView
                /\ n'.attempt = n.attempt]_vars

\* both waits have polled a status that was not yet the awaited one, and the
\* program is in the completion wait with the engine busy
C4_Witness ==
    /\ n.resetPolls >= 1 /\ n.busyPolls >= 1
    /\ pc = "busy_wait" /\ dma.busy

\* C5: if the analog-monitor descriptor is missing, the transfer-engine
\* descriptor is missing or the transfer-engine initialization is rejected,
\* the program has terminated with the failure status before the first
\* cycle: no transfer was submitted, no sample read, no voltage line and no
\* separator printed.
C5_InitFailureStopsBeforeCycles ==
    (ret.sysmonLookup = "fail" \/ ret.dmaLookup = "fail" \/ ret.dmaInit = "fail")
        => /\ pc = "exited" /\ exitStatus = <<1>>
           /\ n.attempt = 0 /\ ret.submit = "none" /\ lastReq = << >>
           /\ reads = << >>
           /\ CountLines("volts") = 0 /\ CountLines("separator") = 0

\* the transfer-engine initialization was rejected and the program has returned
C5_Witness == ret.dmaInit = "fail" /\ pc = "exited"

\* C6: a failure of the analog monitor's register initialization is fatal:
\* once XSysMon_CfgInitialize has failed, no sequencer-mode, alarm, channel or
\* clock-divisor write is made and the transfer engine is never looked up,
\* initialized or started.
C6_MonitorInitFailureFatal ==
    ret.sysmonInit = "fail"
        => /\ sysmonWrites = << >>
           /\ ret.dmaLookup = "none" /\ ret.dmaInit = "none"
           /\ n.attempt = 0

\* C7: every fatal initialization failure is reported: when the program has
\* returned because the analog-monitor descriptor was missing, the
\* transfer-engine descriptor was missing or the transfer-engine
\* initialization was rejected, an error message has been printed.
C7_InitFailureReported ==
    (/\ pc = "exited"
     /\ (ret.sysmonLookup = "fail" \/ ret.dmaLookup = "fail" \/ ret.dmaInit = "fail"))
        => \E j \in 1 .. Len(out) : out[j].kind \in ErrorKinds

\* C8: a rejected submit is fatal and not retried: once a submit has returned
\* a non-success status the program has printed the error as its last line and
\* returned the failure status, and the cycle of the rejected submit has no
\* wait, flush, sample read, voltage line, separator or delay and no further
\* submit: all of these are still at the counts of the cycles accepted before.
C8_RejectedSubmitFatal ==
    ret.submit = "fail"
        => /\ pc = "exited" /\ exitStatus = <<1>>
           /\ out[Len(out)].kind = "dma_transfer_failed"
           /\ CountLines("dma_transfer_failed") = 1
           /\ n.attempt = n.submit + 1
           /\ n.await = n.submit /\ n.flush = n.submit
           /\ Len(reads) = 100 * n.submit
           /\ CountLines("volts") = 100 * n.submit
           /\ n.sep = n.submit /\ n.delay = n.submit
           /\ ~dma.busy

\* the submit of the second cycle was rejected
C8_Witness == ret.submit = "fail" /\ n.submit = 1 /\ pc = "exited"

\* C9: in every cycle exactly 100 two-byte samples are read, at sample indices
\* 0..99 from the buffer base in ascending order, restarting at the base in
\* each cycle; no byte at offsets 200..511 is read.
C9_ReadsFirstHundred ==
    /\ \A j \in 1 .. Len(reads) :
          /\ reads[j] = 2 * ((j - 1) % 100)
          /\ reads[j] + 1 < 200
    /\ Len(reads) <= 100 * n.flush
    /\ Len(reads) >= 100 * n.sep
    /\ pc \in {"separator", "delay", "loop_head", "submit", "busy_wait", "flush"}
          => Len(reads) = 100 * n.flush

\* two cycles have read their samples
C9_Witness == Len(reads) = 200 /\ n.sep = 2

\* value of a sequence of decimal digits
RECURSIVE DigitsValue(_)
DigitsValue(ds) ==
    IF ds = << >> THEN 0
    ELSE 10 * DigitsValue(SubSeq(ds, 1, Len(ds) - 1)) + ds[Len(ds)]

\* C10: for every raw code c in 0..65535 the voltage line has integer part 0
\* and exactly three fraction digits whose value is floor(c * 1000 / 65536):
\* 0 gives 000, 16384 gives 250, 32768 gives 500, 65530 and 65535 give 999.
\* (Under ConvSpec the only voltage line is that of the code in slot 0.)
C10_TruncatedMillivolts ==
    \A j \in 1 .. Len(out) :
        out[j].kind = "volts"
            => LET c == mem[0]
               IN  /\ out[j].ip = 0
                   /\ Len(out[j].frac) = 3
                   /\ DigitsValue(out[j].frac) = (c * 1000) \div 65536
                   /\ DigitsValue(out[j].frac) \in 0 .. 999
                   /\ c = 0 => out[j].frac = <<0, 0, 0>>
                   /\ c = 16384 => out[j].frac = <<2, 5, 0>>
                   /\ c = 32768 => out[j].frac = <<5, 0, 0>>
                   /\ c \in {65530, 65535} => out[j].frac = <<9, 9, 9>>

\* the code 65530, which rounding would print as 1.000, has been printed
C10_Witness ==
    /\ mem[0] = 65530
    /\ Len(reads) = 1
    /\ out[Len(out)] = [kind |-> "volts", ip |-> 0, frac |-> <<9, 9, 9>>]

\* C11: each completed cycle prints exactly 100 voltage lines followed by one
\* separator: after the banner the output is made of blocks of 101 lines, a
\* separator at the 101st place of a block and voltage lines at the other
\* places (an error line can only stand last); so no separator comes before
\* the 100th voltage line of its cycle and no voltage line of the next cycle
\* before the separator.  The k-th voltage line of the cycle in progress or
\* just completed is the conversion of the k-th sample of the buffer.
C11_BatchThenSeparator ==
    /\ \A j \in 2 .. Len(out) :
          \/ out[j].kind = IF (j - 2) % 101 = 100 THEN "separator" ELSE "volts"
          \/ j = Len(out) /\ out[j].kind \in ErrorKinds /\ (j - 2) % 101 = 0
    /\ CountLines("separator") = n.sep
    /\ pc = "delay" => Len(out) = 1 + 101 * n.sep
    /\ pc \in {"for", "separator", "delay"}
          => LET first == 2 + 101 * (n.flush - 1)
                 count == IF Len(out) - first + 1 < 100
                          THEN Len(out) - first + 1 ELSE 100
             IN  /\ count = (IF pc = "for" THEN i ELSE 100)
                 /\ \A k \in 0 .. (count - 1) :
                       /\ out[first + k].kind = "volts"
                       /\ out[first + k].ip = 0
                       /\ Len(out[first + k].frac) = 3
                       /\ DigitsValue(out[first + k].frac) = (mem[k] * 1000) \div 65536

\* the second cycle has printed its 100 lines and its separator
C11_Witness == pc = "delay" /\ n.sep = 2 /\ CountLines("volts") = 200

\* C12: the transfer engine is used by polling only.  The interrupts of both
\* directions are disabled after the reset has been seen complete and before
\* the first submit, and no later step enables one: from the top of the loop
\* on, and in every state with a transfer in flight, all engine interrupts
\* are disabled; and no interrupt is disabled before the reset wait is over.
C12_PollingOnly ==
    /\ (\/ dma.busy
        \/ n.attempt >= 1
        \/ pc \in {"loop_head", "submit", "busy_wait", "flush", "for",
                   "separator", "delay"})
          => ~dma.intrS2MM /\ ~dma.intrMM2S
    /\ (~dma.intrS2MM \/ ~dma.intrMM2S)
          => /\ dma.resetDone /\ ret.dmaInit = "ok"
             /\ pc \notin {"dma_reset", "reset_wait", "intr_disable_s2mm"}
    /\ ~dma.intrMM2S => ~dma.intrS2MM

\* a transfer is in flight, its data being written, after the interrupts
\* were disabled
C12_Witness ==
    /\ dma.busy /\ dma.written /\ n.submit = 1
    /\ ~dma.intrS2MM /\ ~dma.intrMM2S

\* C13: once initialization has succeeded the program never terminates on the
\* success path.  If the loop is reached, no submit is ever rejected and the
\* engine, whenever busy, eventually reports not busy, then the separator is
\* printed infinitely often and main() never returns; and each time the top
\* of the loop is reached after a separator, the 500 ms delay has been made
\* (as many delays as separators, 500000 us each).
C13_RunsForever ==
    (/\ <>(pc = "loop_head")
     /\ [](ret.submit # "fail")
     /\ (dma.busy ~> ~dma.busy))
        => /\ []<><<Separator>>_vars
           /\ [](exitStatus = << >>)
           /\ [](pc = "loop_head" => n.delay = n.sep /\ n.slept = 500000 * n.sep)
           /\ [](pc = "delay" => n.delay = n.sep - 1)

\* a cycle has printed its separator and slept, and the loop is at its top
\* again
C13_Witness ==
    /\ pc = "loop_head" /\ n.sep = 1 /\ n.delay = 1 /\ n.slept = 500000
    /\ exitStatus = << >>

\* C14: the cache flush covers exactly the bytes written by the transfer just
\* completed: start and length of every flush are the target address and the
\* length of the most recent submit, and every submit has the buffer base as
\* target, a length of 512 bytes (the capacity of the buffer) and the direction
\* device-to-memory; after the flush the processor sees, in every slot of the
\* buffer, what the transfer engine wrote.
C14_FlushCoversTransfer ==
    /\ lastReq # << >>
          => /\ lastReq.addr = 1048576
             /\ lastReq.len = 512
             /\ lastReq.len <= 2 * Cardinality(DOMAIN mem)
             /\ lastReq.dir = "XAXIDMA_DEVICE_TO_DMA"
    /\ lastFlush # << >>
          => /\ lastReq # << >>
             /\ lastFlush.addr = lastReq.addr
             /\ lastFlush.len = lastReq.len
    /\ n.flush >= 1 <=> lastFlush # << >>
    /\ n.attempt >= 1 <=> lastReq # << >>
    /\ pc \in {"for", "separator", "delay"} => cpuView = mem

\* the second transfer has been flushed and the processor sees its data
C14_Witness ==
    /\ n.flush = 2 /\ pc = "for" /\ i = 0
    /\ lastFlush = [addr |-> 1048576, len |-> 512]
    /\ cpuView = mem /\ cpuView[0] = 16384

\* C15: the analog monitor's configuration is frozen once continuous sampling
\* has started: no step taken with the sequencer mode at ContinuousPass, in
\* the loop or on a failure path, writes the sequencer mode, the alarm
\* enables, the channel mask or the clock divisor, so the mode stays
\* ContinuousPass and Safe is never entered again.
C15_ConfigFrozen ==
    [][sysmon.seqMode = "continpass"
          => /\ sysmon' = sysmon
             /\ sysmonWrites' = sysmonWrites]_vars

\* continuous sampling is on, a cycle has completed and the submit of the
\* next one was rejected
C15_Witness ==
    /\ sysmon.seqMode = "continpass" /\ Len(sysmonWrites) = 5
    /\ n.sep = 1 /\ ret.submit = "fail" /\ pc = "exited"

\* C16: with the engine as a process of its own that writes the buffer only
\* between an accepted submit and its report of not busy, the accesses to the
\* buffer alternate: a step that reads a sample is taken with no transfer in
\* flight, the program is never at the flush, in the sample loop or at the
\* separator while a transfer is in flight, and a step in which the engine
\* writes the buffer is taken while the program is in the completion wait
\* and reads and prints nothing.
C16_BufferAccessAlternates ==
    [][/\ reads' # reads => ~dma.busy /\ ~dma'.busy
       /\ pc \in {"flush", "for", "separator"} => ~dma.busy /\ ~dma'.busy
       /\ (mem' # mem \/ (dma'.written /\ ~dma.written))
             => /\ dma.busy
                /\ pc = "busy_wait" /\ pc' = "busy_wait"
                /\ reads' = reads /\ out' = out /\ cpuView' = cpuView]_vars

\* the engine has written the data of the second transfer, after the samples
\* of the first cycle were read
C16_Witness ==
    /\ dma.busy /\ dma.written /\ pc = "busy_wait"
    /\ n.submit = 2 /\ Len(reads) = 100

\* C17: no check for a mid-transfer fault is made.  Once the engine reports
\* not busy the program goes from the wait to the flush, from the flush to
\* the sample loop, from there to the separator and on to the delay, whether
\* or not the engine reported a transfer error; at the separator 100 voltage
\* lines per flush have been printed.  The program returns only from the two
\* descriptor lookups, the engine initialization and the submit, and prints
\* no line other than the banner, voltage lines, separators and the three
\* messages of those failures: there is no Faulted state and no
\* TransferFailed error.
C17_NoFaultCheck ==
    [][/\ pc = "busy_wait" /\ ~dma.busy => pc' = "flush"
       /\ pc = "flush" => pc' = "for"
       /\ pc = "for" => pc' \in {"for", "separator"}
       /\ pc = "separator" => pc' = "delay" /\ CountLines("volts") = 100 * n.flush
       /\ (pc' = "exited" /\ pc # "exited")
             => pc \in {"sysmon_lookup", "dma_lookup", "dma_cfginit", "submit"}
       /\ \A j \in 1 .. Len(out') :
             out'[j].kind \in {"banner", "volts", "separator"} \cup ErrorKinds
       /\ exitStatus' # << >> => ret'.sysmonLookup = "fail" \/ ret'.dmaLookup = "fail"
                                 \/ ret'.dmaInit = "fail" \/ ret'.submit = "fail"]_vars

\* a cycle whose transfer ended with an error report has printed its lines
\* and its separator
C17_Witness ==
    /\ dma.err /\ pc = "delay" /\ n.sep = 1
    /\ CountLines("volts") = 100 /\ exitStatus = << >>

\* C18: whenever the program has terminated because the transfer engine's
\* descriptor was missing or its initialization was rejected, the analog
\* monitor had already been switched to ContinuousPass and is still in that
\* mode: the last register write is the one that started continuous sampling
\* and nothing has put the monitor back into Safe mode.
C18_MonitorLeftSampling ==
    (ret.dmaLookup = "fail" \/ ret.dmaInit = "fail")
        => /\ pc = "exited"
           /\ sysmon.seqMode = "continpass"
           /\ Len(sysmonWrites) = 5
           /\ sysmonWrites[5] = [reg |-> "seqMode", val |-> "continpass", mode |-> "safe"]

\* the program has returned for a missing engine descriptor, the monitor
\* sampling
C18_Witness ==
    /\ ret.dmaLookup = "fail" /\ pc = "exited" /\ exitStatus = <<1>>
    /\ sysmon.seqMode = "continpass"

\* C19: platform cleanup is never performed: on every execution
\* cleanup_platform is not called after init_platform, every termination is
\* an early return of the failure status, made after a failed lookup, a
\* rejected engine initialization or a rejected submit, and the value 0 is
\* never returned.
C19_NoCleanupNoSuccessReturn ==
    /\ ~platform.cleanup
    /\ pc # "init_platform" => platform.init
    /\ exitStatus # <<0>>
    /\ pc = "exited" <=> exitStatus # << >>
    /\ exitStatus # << >>
          => /\ exitStatus = <<1>>
             /\ \/ ret.sysmonLookup = "fail" \/ ret.dmaLookup = "fail"
                \/ ret.dmaInit = "fail" \/ ret.submit = "fail"

\* the program has returned from its first submit with the platform
\* initialized and not cleaned up
C19_Witness ==
    /\ pc = "exited" /\ exitStatus = <<1>>
    /\ n.attempt = 1 /\ n.submit = 0
    /\ platform = [init |-> TRUE, cleanup |-> FALSE]

====
